---- MODULE Spec2Model ----
(***************************************************************************)
(* Matchmaking and signaling of the world-connect video chat.              *)
(*                                                                         *)
(* The shared store is Firestore: the collections "rooms", "iceCandidates" *)
(* and "chatMessages" (roomService).  Every participant runs one VideoChat *)
(* component.  The component of src/components/VideoChat.tsx calls         *)
(* closePeerConnection and initiatePeerConnection without defining them;   *)
(* the only definitions in the repository are those of the earlier version *)
(* of the component (src/unnamed/part_004), which also holds the           *)
(* searchForPartner / stopSearch flow.  The model is the component with    *)
(* the handlers of both files.                                             *)
(*                                                                         *)
(* Presence is the isOnline field of the documents of the collection       *)
(* "users" (firebaseConnector) and the feed of subscribeToUsers.           *)
(*                                                                         *)
(* The identifiers the component uses without declaring them               *)
(* (selectedUserId, setPartnerUid, setIsSearching, unsubscribeRefs) are    *)
(* taken as the state hooks and the ref their names say.                   *)
(*                                                                         *)
(* An async handler is split where it awaits a store read that a later     *)
(* write of the same handler depends on (findOrCreateRoom and              *)
(* createRoomWithUser: getDocs, then updateDoc / addDoc).                  *)
(*                                                                         *)
(* The chatState effect exists in two forms: the one of part_004 calls     *)
(* searchForPartner (SearchForPartner), the one of VideoChat.tsx does not  *)
(* (InitializeLocalVideo).  Failures are inputs: the store write of a      *)
(* mount's announce may fail (Mount), a step of startRandomChat after the  *)
(* resolver may throw (StartRandomChatThrows), the write of                *)
(* updateRoomStatus may fail (LeaveFails).  Guest is a third client of     *)
(* the store that calls findOrCreateRoom and nothing else.  The profile    *)
(* page writes the user's document with upsertUser (SaveProfile).          *)
(***************************************************************************)
EXTENDS Integers, Sequences, FiniteSets, TLC

\* ---------------------------------------------------------------- bounds
MaxRooms == 3
MaxCalls == 3
MaxOffers == 2
MaxAnswers == 2
MaxCands == 2
MaxMsgs == 2
MaxTs == 2

Users == {1, 2}
Guest == 3             \* a third client, of which only its findOrCreateRoom calls are followed
NoUser == 0            \* participant2Id: "" (open seat), partnerId: "", partnerProfile: null
NoRoom == 0            \* currentRoomId: null, an empty query result
NoOffer == 0           \* the room document has no offer field

VARIABLES
    rooms,          \* collection "rooms": sequence of room documents, id = index
    iceCandidates,  \* collection "iceCandidates": sequence of documents, id = index
    chatMessagesDb, \* collection "chatMessages": sequence of documents, id = index
    op,             \* per user and for Guest: the resolver call awaiting its getDocs result
    chatState,      \* per user: React state chatState
    currentRoomId,  \* per user: React state currentRoomId
    partner,        \* per user: React state partnerProfile / partnerUid
    isInitiator,    \* per user: React state isInitiator
    search,         \* per user: the chatState effect has a searchForPartner call to make
    calls,          \* number of handler calls the application has made so far
    pc,             \* per user: peerConnectionRef.current
    subs,           \* per user: the listeners startRandomChat has installed
    effInit,        \* per user: isInitiator as closed over by the room effect
    dirtyRoom,      \* per user: the effect's subscribeToRoom has a snapshot to deliver
    dirtyIce,       \* per user: the effect's subscribeToIceCandidates has a snapshot
    dirtyChat,      \* per user: the effect's subscribeToChatMessages has a snapshot
    fetched,        \* per user: result of a getChatMessagesForRoom not yet resolved
    pendingCandidates, \* per user: pendingCandidatesRef.current
    applied,        \* per user: the addIceCandidate calls made on the current pc
    answersSet,     \* per user: the setRemoteDescription(answer) calls made
    chatMessages,   \* per user: React state chatMessages
    userCollection, \* collection "users": per user the document's isOnline
    availableUsers, \* per user: React state availableUsers, the documents of the last snapshot
    dirtyUsers,     \* per user: subscribeToUsers has a snapshot to deliver
    mounted,        \* per user: the VideoChat component is mounted
    ended,          \* history: per user, the rooms it has ended (handleNextPartner, stopSearch)
    lonely,         \* history: the rooms a random request made while no other user was online
    offersSet       \* history: per user, the connections setRemoteDescription(offer) was called on

storeVars == <<rooms, iceCandidates, chatMessagesDb>>
matchVars == <<op, chatState, currentRoomId, partner, isInitiator, search, calls>>
sigVars   == <<pc, subs, effInit, dirtyRoom, answersSet>>
iceVars   == <<dirtyIce, pendingCandidates, applied>>
chatVars  == <<dirtyChat, fetched, chatMessages>>
presenceVars == <<userCollection, availableUsers, dirtyUsers, mounted>>
histVars  == <<ended, lonely, offersSet>>
vars == <<storeVars, matchVars, sigVars, iceVars, chatVars, presenceVars, histVars>>

\* ------------------------------------------------------------ the store
\* offer: NoOffer, or n for the n-th offer written to the room.  answers: the
\* answers written to the room, oldest first; the document's answer field is
\* the last one.  offerBy records who wrote the offer field.
NewRoom(a, b) ==
    [participant1Id |-> a, participant2Id |-> b, isActive |-> TRUE,
     offer |-> NoOffer, offerBy |-> {}, answers |-> << >>]

Ids == 1..Len(rooms)

HasAnswer(r) == Len(rooms[r].answers) > 0

\* query(isActive == true, participant2Id == "")
OpenRooms == {r \in Ids : rooms[r].isActive /\ rooms[r].participant2Id = NoUser}

\* query(isActive == true, participant1Id == a, participant2Id == b)
RoomsBetween(a, b) ==
    {r \in Ids : rooms[r].isActive /\ rooms[r].participant1Id = a
                                   /\ rooms[r].participant2Id = b}

Members(r) == {rooms[r].participant1Id, rooms[r].participant2Id} \ {NoUser}

ActiveRoomsOf(u) == {r \in Ids : rooms[r].isActive /\ u \in Members(r)}

\* snapshot.docs[0] of a query without orderBy: the document with the least
\* auto-generated id, that is any one of the matching documents
FirstDoc(S) == IF S = {} THEN {NoRoom} ELSE S

\* ------------------------------------------------------- peer connection
NoPc == [sig |-> "none", remote |-> FALSE, sent |-> FALSE]

\* initiatePeerConnection: new RTCPeerConnection, createOffer,
\* setLocalDescription(offer); the offer is not handed to the store here
InitiatedPc == [sig |-> "have-local-offer", remote |-> FALSE, sent |-> FALSE]

\* a listener that is called on every write
NotifiedAlways(R, r, cap) == TRUE

\* ------------------------------------------------------------ listeners
\* A listener on a room document fires when it is attached and after every
\* write to the document.  A notification is carried as a flag only where the
\* callback can act on it: the callback of subscribeToOffers runs only if the
\* document has an offer and returns at once if the listener's isInitiator is
\* true; the callback of subscribeToAnswers runs only if the document has an
\* answer and returns at once if isInitiator is false; handleRoomSignaling
\* looks at the answer if isInitiator is true and at the offer if not.
Relevant(R, r, cap) == IF cap THEN Len(R[r].answers) > 0 ELSE R[r].offer # NoOffer

\* the listeners one startRandomChat call installs on room r of store R;
\* d: the offers listener (isInitiator false) or the answers listener
\* (isInitiator true) has a notification to deliver
NewSub(R, r, cap, other) ==
    [room |-> r, isInitiator |-> cap, other |-> other,
     d |-> Relevant(R, r, cap), iceSeen |-> {}, msgSeen |-> {}]

\* the room the effect of VideoChat.tsx:176-215 is subscribed to
EffectRoom(cs, cur, u) == IF cs[u] = "connected" THEN cur[u] ELSE NoRoom

\* a write to room document r, giving store R, reaches every listener on r
TouchSubs(S, R, r) ==
    [u \in Users |->
        [i \in 1..Len(S[u]) |->
            IF S[u][i].room = r
            THEN [S[u][i] EXCEPT !.d = @ \/ Relevant(R, r, S[u][i].isInitiator)]
            ELSE S[u][i]]]

TouchEffect(D, R, r) ==
    [u \in Users |-> D[u] \/ (/\ r # NoRoom
                              /\ EffectRoom(chatState, currentRoomId, u) = r
                              /\ Relevant(R, r, effInit[u]))]

\* subscribeToUsers: every document of the collection, whatever its isOnline;
\* the component drops its own
Snapshot(U, u) == {[uid |-> v, isOnline |-> U[v].isOnline] : v \in Users \ {u}}

\* no user other than u is online
NoOtherOnline(u) == \A v \in Users \ {u} : ~userCollection[v].isOnline

NoOp == [kind |-> "none", partner |-> NoUser, s1 |-> NoRoom, s2 |-> NoRoom]
NoFetch == [room |-> NoRoom, list |-> << >>]

Init ==
    /\ rooms = << >>
    /\ iceCandidates = << >>
    /\ chatMessagesDb = << >>
    /\ op = [u \in Users \cup {Guest} |-> NoOp]
    /\ chatState = [u \in Users |-> "idle"]
    /\ currentRoomId = [u \in Users |-> NoRoom]
    /\ partner = [u \in Users |-> NoUser]
    /\ isInitiator = [u \in Users |-> FALSE]
    /\ search = [u \in Users |-> FALSE]
    /\ calls = 0
    /\ pc = [u \in Users |-> NoPc]
    /\ subs = [u \in Users |-> << >>]
    /\ effInit = [u \in Users |-> FALSE]
    /\ dirtyRoom = [u \in Users |-> FALSE]
    /\ dirtyIce = [u \in Users |-> FALSE]
    /\ dirtyChat = [u \in Users |-> FALSE]
    /\ fetched = [u \in Users |-> NoFetch]
    /\ pendingCandidates = [u \in Users |-> << >>]
    /\ applied = [u \in Users |-> << >>]
    /\ answersSet = [u \in Users |-> << >>]
    /\ chatMessages = [u \in Users |-> << >>]
    /\ userCollection = [u \in Users |-> [isOnline |-> TRUE]]
    /\ availableUsers = [u \in Users |-> Snapshot(userCollection, u)]
    /\ dirtyUsers = [u \in Users |-> FALSE]
    /\ mounted = [u \in Users |-> TRUE]
    /\ ended = [u \in Users |-> {}]
    /\ lonely = {}
    /\ offersSet = [u \in Users |-> {}]

\* ------------------------------------------------------------- resolver
\* The handlers of the component are operations of the surrounding
\* application: which button the JSX shows in which chatState is not modelled.

\* findOrCreateRoom after its getDocs: found is snapshot.docs[0], or NoRoom.
\* The result is <<rooms', roomId, partnerId, isInitiator>>.
FindOrCreateRoom(u, found) ==
    IF found # NoRoom /\ rooms[found].participant1Id # u
    THEN <<[rooms EXCEPT ![found].participant2Id = u],
           found, rooms[found].participant1Id, FALSE>>
    ELSE <<Append(rooms, NewRoom(u, NoUser)), Len(rooms) + 1, NoUser, TRUE>>

\* a resolver that adds a room without a look at the rooms there are
CreateWithoutLookup(u, p, s1, s2) == <<Append(rooms, NewRoom(u, p)), Len(rooms) + 1, p, TRUE>>

\* a resolver that names every caller initiator
InitiatorToAll(u, p, s1, s2) ==
    IF s1 # NoRoom THEN <<rooms, s1, p, TRUE>>
    ELSE IF s2 # NoRoom THEN <<rooms, s2, p, TRUE>>
    ELSE <<Append(rooms, NewRoom(u, p)), Len(rooms) + 1, p, TRUE>>

\* createRoomWithUser after its two getDocs: s1, s2 are the docs[0] of
\* snapshot1 and snapshot2, or NoRoom.
CreateRoomWithUser(u, p, s1, s2) ==
    IF s1 # NoRoom THEN <<rooms, s1, p, TRUE>>
    ELSE IF s2 # NoRoom THEN <<rooms, s2, p, FALSE>>
    ELSE <<Append(rooms, NewRoom(u, p)), Len(rooms) + 1, p, TRUE>>

\* the room document a resolver result has written, NoRoom if it only read
Written(res) == IF res[1] = rooms THEN NoRoom ELSE res[2]

\* startRandomChat up to the resolver's getDocs
StartRandomChatBegin(u, sel) ==
    /\ mounted[u]
    /\ op[u].kind = "none"
    /\ calls < MaxCalls
    /\ calls' = calls + 1
    /\ chatMessages' = [chatMessages EXCEPT ![u] = << >>]
    /\ IF sel = NoUser
       THEN \E f \in FirstDoc(OpenRooms) :
              op' = [op EXCEPT ![u] = [kind |-> "random", partner |-> NoUser,
                                       s1 |-> f, s2 |-> NoRoom]]
       ELSE \E f1 \in FirstDoc(RoomsBetween(u, sel)), f2 \in FirstDoc(RoomsBetween(sel, u)) :
              op' = [op EXCEPT ![u] = [kind |-> "direct", partner |-> sel,
                                       s1 |-> f1, s2 |-> f2]]
    /\ UNCHANGED <<storeVars, chatState, currentRoomId, partner, isInitiator,
                   search, sigVars, iceVars, dirtyChat, fetched>>
    /\ UNCHANGED <<presenceVars, histVars>>

\* the resolver result of the call u is awaiting
Resolved(u) ==
    IF op[u].kind = "random" THEN FindOrCreateRoom(u, op[u].s1)
    ELSE CreateRoomWithUser(u, op[u].partner, op[u].s1, op[u].s2)

\* The effects of VideoChat.tsx:152-215 run again when chatState or
\* currentRoomId changes: the old listeners are unsubscribed and, if the
\* new state is CONNECTED with a room, new ones are attached.
Subscribed(cs, cur) == cs = "connected" /\ cur # NoRoom
Resubscribes(u, cs, cur) ==
    Subscribed(cs, cur) /\ ~(chatState[u] = cs /\ currentRoomId[u] = cur)

\* the room listener flags after a handler of u that leaves u with chatState
\* cs, currentRoomId cur and isInitiator init, and the store as R having
\* written room document w
EffectFlag(D, u, cs, cur, init, R, w) ==
    [TouchEffect(D, R, w) EXCEPT
        ![u] = IF ~Subscribed(cs, cur) THEN FALSE
               ELSE IF Resubscribes(u, cs, cur) THEN Relevant(R, cur, init)
               ELSE D[u] \/ (w = cur /\ Relevant(R, cur, effInit[u]))]

\* the same for a flag that a room write does not set
EffectFlagQ(D, u, cs, cur) ==
    [D EXCEPT ![u] = IF ~Subscribed(cs, cur) THEN FALSE
                     ELSE IF Resubscribes(u, cs, cur) THEN TRUE ELSE @]

\* query(roomId == r, senderId != u) over "iceCandidates"
IceFor(r, u) ==
    {c \in 1..Len(iceCandidates) :
        iceCandidates[c].roomId = r /\ iceCandidates[c].senderId # u}

\* the flag of the effect's candidate listener: its callback does nothing
\* with an empty snapshot
EffectIce(u, cs, cur) ==
    [dirtyIce EXCEPT ![u] = IF ~Subscribed(cs, cur) THEN FALSE
                            ELSE IF Resubscribes(u, cs, cur) THEN IceFor(cur, u) # {}
                            ELSE @]

\* orderBy("timestamp", "asc") over the messages of room r
MsgsOf(r) == {m \in 1..Len(chatMessagesDb) : chatMessagesDb[m].roomId = r}
Earlier(m, n) ==
    \/ chatMessagesDb[m].timestamp < chatMessagesDb[n].timestamp
    \/ chatMessagesDb[m].timestamp = chatMessagesDb[n].timestamp /\ m < n
Ordered(S) ==
    CHOOSE q \in [1..Cardinality(S) -> S] :
        \A a, b \in 1..Cardinality(S) : a < b => Earlier(q[a], q[b])

\* getChatMessagesForRoom issued by the chat effect: its result as of now
Fetch(F, u, cs, cur) ==
    [F EXCEPT ![u] = IF Resubscribes(u, cs, cur)
                     THEN [room |-> cur, list |-> Ordered(MsgsOf(cur))] ELSE @]

\* startRandomChat from the resolver's write on: setIsInitiator,
\* setCurrentRoomId, initiatePeerConnection, the four subscriptions.  The
\* callbacks subscribed here close over isInitiator of the render that ran
\* startRandomChat, i.e. its value before setIsInitiator.
StartRandomChatFinish(u) ==
    /\ op[u].kind # "none"
    /\ LET res == Resolved(u) 
           init == IF op[u].kind = "direct" THEN TRUE ELSE res[4] IN
       /\ Len(res[1]) <= MaxRooms
       /\ rooms' = res[1]
       /\ isInitiator' = [isInitiator EXCEPT ![u] = init]
       /\ currentRoomId' = [currentRoomId EXCEPT ![u] = res[2]]
       /\ partner' = [partner EXCEPT ![u] = res[3]]
       /\ subs' = [TouchSubs(subs, res[1], Written(res)) EXCEPT
                      ![u] = Append(@, NewSub(res[1], res[2], isInitiator[u], res[3]))]
       /\ dirtyRoom' = EffectFlag(dirtyRoom, u, chatState[u], res[2], init,
                                  res[1], Written(res))
       /\ dirtyIce' = EffectIce(u, chatState[u], res[2])
       /\ dirtyChat' = EffectFlagQ(dirtyChat, u, chatState[u], res[2])
       /\ fetched' = Fetch(fetched, u, chatState[u], res[2])
       /\ effInit' = [effInit EXCEPT ![u] =
                         IF Resubscribes(u, chatState[u], res[2]) THEN init ELSE @]
    /\ op' = [op EXCEPT ![u] = NoOp]
    /\ pc' = [pc EXCEPT ![u] = InitiatedPc]
    /\ applied' = [applied EXCEPT ![u] = << >>]
    /\ lonely' = lonely \cup (IF op[u].kind = "random" /\ NoOtherOnline(u)
                            THEN {Written(Resolved(u))} \ {NoRoom} ELSE {})
    /\ UNCHANGED <<iceCandidates, chatMessagesDb, chatState, search, calls,
                   answersSet, pendingCandidates, chatMessages>>
    /\ UNCHANGED <<presenceVars, ended, offersSet>>

\* the users searchForPartner chooses from: availableUsers as the feed of
\* subscribeToUsers has last delivered it
AvailableUsers(u) == {d.uid : d \in availableUsers[u]}

\* an update that leaves the room document as it is
RoomStatusKept(R, w, b) == R

\* updateRoomStatus(roomId, isActive): updateDoc(rooms/w, {isActive})
UpdateRoomStatus(R, w, b) == IF w = NoRoom THEN R ELSE [R EXCEPT ![w].isActive = b]

\* what handleNextPartner and stopSearch have in common: the room is marked
\* inactive, the peer connection closed, the session state cleared and
\* chatState set to cs.  ok: whether the updateDoc of updateRoomStatus went
\* through; a failed write is caught there and reported by returning false,
\* which neither handler looks at.
LeaveWith(u, cs, ok) ==
    LET w == currentRoomId[u] IN
    /\ mounted[u]
    /\ calls < MaxCalls
    /\ calls' = calls + 1
    /\ chatState' = [chatState EXCEPT ![u] = cs]
    /\ currentRoomId' = [currentRoomId EXCEPT ![u] = NoRoom]
    /\ partner' = [partner EXCEPT ![u] = NoUser]
    /\ chatMessages' = [chatMessages EXCEPT ![u] = << >>]
    /\ pc' = [pc EXCEPT ![u] = NoPc]
    /\ applied' = [applied EXCEPT ![u] = << >>]
    /\ rooms' = IF ok THEN UpdateRoomStatus(rooms, w, FALSE) ELSE rooms
    /\ subs' = IF ok THEN TouchSubs(subs, rooms', w) ELSE subs
    /\ dirtyRoom' = EffectFlag(dirtyRoom, u, cs, NoRoom, isInitiator[u], rooms', w)
    /\ dirtyIce' = EffectIce(u, cs, NoRoom)
    /\ dirtyChat' = EffectFlagQ(dirtyChat, u, cs, NoRoom)
    /\ search' = [search EXCEPT ![u] =
                     @ \/ (cs = "searching" /\ chatState[u] # "searching")]
    /\ ended' = [ended EXCEPT ![u] = @ \cup ({w} \ {NoRoom})]
    /\ UNCHANGED <<iceCandidates, chatMessagesDb, op, isInitiator,
                   effInit, answersSet, fetched, pendingCandidates>>
    /\ UNCHANGED <<presenceVars, lonely, offersSet>>

\* the two handlers with the write going through
Leave(u, cs) == LeaveWith(u, cs, TRUE)

\* handleNextPartner: updateRoomStatus(currentRoomId, false),
\* closePeerConnection, chatState SEARCHING
HandleNextPartner(u) == Leave(u, "searching")

\* stopSearch: updateRoomStatus(currentRoomId, false), chatState IDLE,
\* closePeerConnection
StopSearch(u) == Leave(u, "idle")

\* startSearch: chatState SEARCHING; the chatState effect of that render
\* calls searchForPartner once getUserMedia has resolved
StartSearch(u) ==
    /\ mounted[u]
    /\ chatState[u] # "searching"
    /\ calls < MaxCalls
    /\ calls' = calls + 1
    /\ chatState' = [chatState EXCEPT ![u] = "searching"]
    /\ search' = [search EXCEPT ![u] = TRUE]
    /\ dirtyRoom' = EffectFlagQ(dirtyRoom, u, "searching", currentRoomId[u])
    /\ dirtyIce' = EffectIce(u, "searching", currentRoomId[u])
    /\ dirtyChat' = EffectFlagQ(dirtyChat, u, "searching", currentRoomId[u])
    /\ UNCHANGED <<storeVars, op, currentRoomId, partner, isInitiator,
                   pc, subs, effInit, answersSet, pendingCandidates, applied,
                   fetched, chatMessages>>
    /\ UNCHANGED <<presenceVars, histVars>>

\* searchForPartner: a random user of availableUsers, createRoom, chatState
\* CONNECTED, initiatePeerConnection; the effects of VideoChat.tsx:152-215
\* then subscribe to the new room
SearchForPartner(u, v) ==
    /\ search[u]
    /\ v \in AvailableUsers(u)
    /\ Len(rooms) < MaxRooms
    /\ search' = [search EXCEPT ![u] = FALSE]
    /\ rooms' = Append(rooms, NewRoom(u, v))
    /\ currentRoomId' = [currentRoomId EXCEPT ![u] = Len(rooms) + 1]
    /\ partner' = [partner EXCEPT ![u] = v]
    /\ chatState' = [chatState EXCEPT ![u] = "connected"]
    /\ pc' = [pc EXCEPT ![u] = InitiatedPc]
    /\ applied' = [applied EXCEPT ![u] = << >>]
    /\ dirtyRoom' = [dirtyRoom EXCEPT ![u] = FALSE]
    /\ dirtyIce' = [dirtyIce EXCEPT ![u] = FALSE]
    /\ dirtyChat' = [dirtyChat EXCEPT ![u] = TRUE]
    /\ effInit' = [effInit EXCEPT ![u] = isInitiator[u]]
    /\ fetched' = [fetched EXCEPT ![u] = [room |-> Len(rooms) + 1, list |-> << >>]]
    /\ lonely' = lonely \cup (IF NoOtherOnline(u) THEN {Len(rooms) + 1} ELSE {})
    /\ UNCHANGED <<iceCandidates, chatMessagesDb, op, isInitiator, calls, subs,
                   answersSet, pendingCandidates, chatMessages>>
    /\ UNCHANGED <<presenceVars, ended, offersSet>>

\* the chatState effect as VideoChat.tsx:114-150 has it: outside IDLE the
\* local stream is obtained and set on the video element, and nothing else;
\* searchForPartner is called by the effect as part_004:79-105 has it
InitializeLocalVideo(u) ==
    /\ search[u]
    /\ search' = [search EXCEPT ![u] = FALSE]
    /\ UNCHANGED <<storeVars, op, chatState, currentRoomId, partner, isInitiator,
                   calls, sigVars, iceVars, chatVars, presenceVars, histVars>>

NextMatch ==
    \/ \E u \in Users, sel \in Users \cup {NoUser} : sel # u /\ StartRandomChatBegin(u, sel)
    \/ \E u \in Users : StartRandomChatFinish(u)
    \/ \E u \in Users : StartSearch(u)
    \/ \E u \in Users, v \in Users : SearchForPartner(u, v)
    \/ \E u \in Users : HandleNextPartner(u)
    \/ \E u \in Users : StopSearch(u)

SpecMatch == Init /\ [][NextMatch]_vars

\* C1 (Uniqueness): under every interleaving of findOrCreateRoom,
\* searchForPartner + createRoom and createRoomWithUser calls, no participant
\* is a member of two rooms that are active at the same time.
Uniqueness == \A u \in Users : Cardinality(ActiveRoomsOf(u)) <= 1

\* two concurrent direct requests for each other have both read "no room
\* between us" and both created one
TwoRoomsOfOnePair ==
    \E r1, r2 \in Ids :
        /\ r1 # r2 /\ rooms[r1].isActive /\ rooms[r2].isActive
        /\ Members(r1) = Users /\ Members(r2) = Users
        /\ rooms[r1].participant1Id # rooms[r2].participant1Id
        /\ \A u \in Users : op[u].kind = "none" /\ chatState[u] = "idle"

\* ------------------------------------------------------------- signaling
SumOver(f, S) ==
    LET RECURSIVE Sum(_)
        Sum(T) == IF T = {} THEN 0 ELSE LET x == CHOOSE y \in T : TRUE
                                        IN f[x] + Sum(T \ {x})
    IN Sum(S)
OffersWritten == SumOver([r \in Ids |-> rooms[r].offer], Ids)
AnswersWritten == SumOver([r \in Ids |-> Len(rooms[r].answers)], Ids)

\* updateDoc(rooms/r, {offer}) by u
AddOfferToRoom(R, r, u) ==
    [R EXCEPT ![r].offer = @ + 1, ![r].offerBy = @ \cup {u}]

\* updateDoc(rooms/r, {answer}) by u: the answer to the offer now in the room
AddAnswerToRoom(R, r, u) ==
    [R EXCEPT ![r].answers = Append(@, [by |-> u, of |-> R[r].offer])]

\* Nothing in the component hands the local offer of initiatePeerConnection
\* to addOfferToRoom.  The protocol's rule: the participant the resolver
\* designated initiator of the room (its creator, participant1Id) publishes
\* the offer it holds, once.
OffersTo(u, r) ==
    /\ r # NoRoom /\ r = currentRoomId[u]
    /\ rooms[r].participant1Id = u
    /\ pc[u].sig = "have-local-offer" /\ ~pc[u].sent

SendOffer(u) ==
    LET r == currentRoomId[u] IN
    /\ OffersTo(u, r)
    /\ OffersWritten < MaxOffers
    /\ rooms' = AddOfferToRoom(rooms, r, u)
    /\ pc' = [pc EXCEPT ![u].sent = TRUE]
    /\ subs' = TouchSubs(subs, rooms', r)
    /\ dirtyRoom' = TouchEffect(dirtyRoom, rooms', r)
    /\ UNCHANGED <<iceCandidates, chatMessagesDb, matchVars, effInit, answersSet,
                   iceVars, chatVars>>
    /\ UNCHANGED <<presenceVars, histVars>>

\* setRemoteDescription(answer): succeeds in have-local-offer only
SetRemoteAnswer(p) ==
    IF p.sig = "have-local-offer" THEN [p EXCEPT !.sig = "stable", !.remote = TRUE] ELSE p

\* setRemoteDescription(offer), createAnswer, setLocalDescription(answer)
Answered(p) == [p EXCEPT !.sig = "stable", !.remote = TRUE]

\* the record of one setRemoteDescription(answer) call
AnswerCall(r, p) ==
    [room |-> r, answer |-> Len(rooms[r].answers), ok |-> p.sig = "have-local-offer"]

\* handleRoomSignaling(room), called by the room listener of the effect.
\* setRemoteDescription(offer) on a connection in have-local-offer rolls the
\* local offer back or throws InvalidStateError, depending on the browser.
HandleRoomSignaling(u, rollback) ==
    LET r == currentRoomId[u]
        p == pc[u]
        asInitiator == effInit[u] /\ HasAnswer(r) /\ ~p.remote
        asResponder == ~effInit[u] /\ rooms[r].offer # NoOffer /\ ~p.remote
        answers == asResponder /\ (p.sig = "stable" \/ rollback) IN
    /\ dirtyRoom[u]
    /\ IF p.sig = "none" \/ ~(asInitiator \/ asResponder)
       THEN /\ dirtyRoom' = [dirtyRoom EXCEPT ![u] = FALSE]
            /\ UNCHANGED <<rooms, pc, subs, answersSet>>
       ELSE IF asInitiator
       THEN /\ pc' = [pc EXCEPT ![u] = SetRemoteAnswer(p)]
            /\ answersSet' = [answersSet EXCEPT ![u] = Append(@, AnswerCall(r, p))]
            /\ dirtyRoom' = [dirtyRoom EXCEPT ![u] = FALSE]
            /\ UNCHANGED <<rooms, subs>>
       ELSE IF answers
       THEN /\ AnswersWritten < MaxAnswers
            /\ pc' = [pc EXCEPT ![u] = Answered(p)]
            /\ rooms' = AddAnswerToRoom(rooms, r, u)
            /\ subs' = TouchSubs(subs, rooms', r)
            /\ dirtyRoom' = TouchEffect(dirtyRoom, rooms', r)
            /\ UNCHANGED answersSet
       ELSE /\ dirtyRoom' = [dirtyRoom EXCEPT ![u] = FALSE]
            /\ UNCHANGED <<rooms, pc, subs, answersSet>>
    /\ UNCHANGED <<iceCandidates, chatMessagesDb, matchVars, effInit, iceVars, chatVars>>
    /\ offersSet' = [offersSet EXCEPT ![u] =
                        IF p.sig # "none" /\ asResponder THEN @ \cup {"current"} ELSE @]
    /\ UNCHANGED <<presenceVars, ended, lonely>>

\* the callback subscribeToRoomOffers has given to subscribeToOffers, for
\* listener i of u.  On a connection that is not stable it closes the
\* connection and initiates a new one, and then goes on with the closed one:
\* setRemoteDescription throws.
DeliverOffers(u, i) ==
    LET sub == subs[u][i]
        r == sub.room
        p == pc[u]
        seen == [subs EXCEPT ![u][i].d = FALSE] IN
    /\ ~sub.isInitiator /\ sub.d
    /\ IF p.sig = "none"
       THEN /\ subs' = seen
            /\ UNCHANGED <<rooms, pc, dirtyRoom, applied>>
       ELSE IF p.sig # "stable"
       THEN /\ subs' = seen
            /\ pc' = [pc EXCEPT ![u] = InitiatedPc]
            /\ applied' = [applied EXCEPT ![u] = << >>]
            /\ UNCHANGED <<rooms, dirtyRoom>>
       ELSE /\ AnswersWritten < MaxAnswers
            /\ pc' = [pc EXCEPT ![u] = Answered(p)]
            /\ rooms' = AddAnswerToRoom(rooms, r, u)
            /\ subs' = TouchSubs(seen, rooms', r)
            /\ dirtyRoom' = TouchEffect(dirtyRoom, rooms', r)
            /\ UNCHANGED applied
    /\ UNCHANGED <<iceCandidates, chatMessagesDb, matchVars, effInit, answersSet,
                   dirtyIce, pendingCandidates, chatVars>>
    /\ offersSet' = [offersSet EXCEPT ![u] =
                        IF p.sig = "none" THEN @
                        ELSE IF p.sig # "stable" THEN @ \cup {"closed"}
                        ELSE @ \cup {"current"}]
    /\ UNCHANGED <<presenceVars, ended, lonely>>

\* the callback subscribeToRoomAnswers has given to subscribeToAnswers
DeliverAnswers(u, i) ==
    LET sub == subs[u][i]
        r == sub.room
        p == pc[u] IN
    /\ sub.isInitiator /\ sub.d
    /\ subs' = [subs EXCEPT ![u][i].d = FALSE]
    /\ IF p.sig # "none"
       THEN /\ pc' = [pc EXCEPT ![u] = SetRemoteAnswer(p)]
            /\ answersSet' = [answersSet EXCEPT ![u] = Append(@, AnswerCall(r, p))]
       ELSE UNCHANGED <<pc, answersSet>>
    /\ UNCHANGED <<storeVars, matchVars, effInit, dirtyRoom, iceVars, chatVars>>
    /\ UNCHANGED <<presenceVars, histVars>>

NextSig ==
    \/ NextMatch
    \/ \E u \in Users : SendOffer(u)
    \/ \E u \in Users, rollback \in BOOLEAN : HandleRoomSignaling(u, rollback)
    \/ \E u \in Users : \E i \in 1..Len(subs[u]) : DeliverOffers(u, i)
    \/ \E u \in Users : \E i \in 1..Len(subs[u]) : DeliverAnswers(u, i)

SpecSig == Init /\ [][NextSig]_vars

\* C2 (Role asymmetry): in every room the offer field is written only by the
\* participant designated initiator (the room's participant1Id) and the
\* answer field only by the other participant; no participant writes both an
\* offer and an answer for the same room.
RoleAsymmetry ==
    \A r \in Ids :
        /\ rooms[r].offerBy \subseteq {rooms[r].participant1Id}
        /\ \A i \in 1..Len(rooms[r].answers) :
              /\ rooms[r].answers[i].by \in Members(r) \ {rooms[r].participant1Id}
              /\ rooms[r].answers[i].by \notin rooms[r].offerBy

\* the creator of a room has published its offer and has answered it itself
AnswersOwnOffer ==
    \E r \in Ids : \E i \in 1..Len(rooms[r].answers) :
        /\ rooms[r].answers[i].by = rooms[r].participant1Id
        /\ rooms[r].offerBy = {rooms[r].participant1Id}

\* C3 (Idempotent answer consumption): however often a room notification
\* carrying the same answer is delivered to a participant acting as
\* initiator, that participant hands the answer to setRemoteDescription once.
AnswerConsumedOnce ==
    \A u \in Users : \A i, j \in 1..Len(answersSet[u]) :
        (answersSet[u][i].room = answersSet[u][j].room
            /\ answersSet[u][i].answer = answersSet[u][j].answer) => i = j

\* the same answer has been handed to setRemoteDescription twice
AnswerConsumedTwice ==
    \E u \in Users : \E i, j \in 1..Len(answersSet[u]) :
        /\ i < j
        /\ answersSet[u][i].room = answersSet[u][j].room
        /\ answersSet[u][i].answer = answersSet[u][j].answer
        /\ answersSet[u][i].ok

\* C4 (Idempotent offer processing): for each offer published in a room a
\* responder writes at most one answer to the room, whatever notifications
\* carrying the already answered offer it gets (its own answer write's
\* included).
OfferAnsweredOnce ==
    \A r \in Ids : \A i, j \in 1..Len(rooms[r].answers) :
        (rooms[r].answers[i].by = rooms[r].answers[j].by
            /\ rooms[r].answers[i].of = rooms[r].answers[j].of) => i = j

\* a participant other than the offer's author has answered one offer twice
OfferAnsweredTwice ==
    \E r \in Ids : \E i, j \in 1..Len(rooms[r].answers) :
        /\ i < j
        /\ rooms[r].answers[i].by = rooms[r].answers[j].by
        /\ rooms[r].answers[i].of = rooms[r].answers[j].of
        /\ rooms[r].answers[i].by \notin rooms[r].offerBy

\* -------------------------------------------------------- ICE candidates
\* Nothing in the component calls addIceCandidate of roomService (no
\* onicecandidate handler is installed).  The protocol's rule: a participant
\* with a peer connection appends its candidates to its current room.
CandidatesTo(u, r) ==
    /\ r # NoRoom /\ r = currentRoomId[u]
    /\ u \in Members(r)
    /\ pc[u].sig # "none"

\* roomService addIceCandidate: addDoc(iceCandidates, {roomId, senderId, ...})
AddIceCandidate(r, u) == Append(iceCandidates, [roomId |-> r, senderId |-> u])

SendCandidate(u) ==
    LET r == currentRoomId[u] IN
    /\ CandidatesTo(u, r)
    /\ Len(iceCandidates) < MaxCands
    /\ iceCandidates' = AddIceCandidate(r, u)
    /\ dirtyIce' = [v \in Users |->
                      dirtyIce[v] \/ (v # u /\ EffectRoom(chatState, currentRoomId, v) = r)]
    /\ UNCHANGED <<rooms, chatMessagesDb, matchVars, sigVars, pendingCandidates,
                   applied, chatVars>>
    /\ UNCHANGED <<presenceVars, histVars>>

\* one RTCPeerConnection.addIceCandidate call: the candidate document, whether
\* the remote description was set, and the queue at the time of the call
Application(c, p, queue) == [id |-> c, remote |-> p.remote, behind |-> queue]

\* query(roomId == sub.room, senderId == sub.other): the documents the
\* docChanges of listener i of u have not reported yet.  Without orderBy a
\* snapshot lists them by document id, that is in any order.
Unseen(u, i) ==
    {c \in 1..Len(iceCandidates) :
        /\ subs[u][i].other # NoUser
        /\ iceCandidates[c].roomId = subs[u][i].room
        /\ iceCandidates[c].senderId = subs[u][i].other
        /\ c \notin subs[u][i].iceSeen}

\* the callback subscribeToIceCandidates has given to
\* subscribeToUserIceCandidates, for candidate document c
DeliverCandidate(u, i, c) ==
    /\ c \in Unseen(u, i)
    /\ subs' = [subs EXCEPT ![u][i].iceSeen = @ \cup {c}]
    /\ IF pc[u].sig # "none" /\ pc[u].remote
       THEN /\ applied' = [applied EXCEPT
                              ![u] = Append(@, Application(c, pc[u], pendingCandidates[u]))]
            /\ UNCHANGED pendingCandidates
       ELSE /\ pendingCandidates' = [pendingCandidates EXCEPT ![u] = Append(@, c)]
            /\ UNCHANGED applied
    /\ UNCHANGED <<storeVars, matchVars, pc, effInit, dirtyRoom, answersSet,
                   dirtyIce, chatVars>>
    /\ UNCHANGED <<presenceVars, histVars>>

\* the candidate listener of the effect (VideoChat.tsx:185-201): every
\* snapshot hands all candidates of the room to addIceCandidate, in the
\* snapshot's order
Sequences(S) ==
    {q \in [1..Cardinality(S) -> S] : \A a, b \in 1..Cardinality(S) : a # b => q[a] # q[b]}

DeliverCandidates(u, order) ==
    /\ dirtyIce[u]
    /\ order \in Sequences(IceFor(currentRoomId[u], u))
    /\ dirtyIce' = [dirtyIce EXCEPT ![u] = FALSE]
    /\ applied' = [applied EXCEPT ![u] =
                      IF pc[u].sig = "none" THEN @
                      ELSE @ \o [k \in 1..Len(order) |->
                                    Application(order[k], pc[u], pendingCandidates[u])]]
    /\ UNCHANGED <<storeVars, matchVars, sigVars, pendingCandidates, chatVars>>
    /\ UNCHANGED <<presenceVars, histVars>>

\* processPendingCandidates: has no caller in the component
ProcessPendingCandidates(u) ==
    /\ pc[u].sig # "none" /\ pc[u].remote
    /\ pendingCandidates' = [pendingCandidates EXCEPT ![u] = << >>]
    /\ applied' = [applied EXCEPT ![u] =
                      @ \o [k \in 1..Len(pendingCandidates[u]) |->
                               Application(pendingCandidates[u][k], pc[u],
                                           SubSeq(pendingCandidates[u], k + 1,
                                                  Len(pendingCandidates[u])))]]
    /\ UNCHANGED <<storeVars, matchVars, sigVars, dirtyIce, chatVars>>
    /\ UNCHANGED <<presenceVars, histVars>>

NextIce ==
    \/ NextSig
    \/ \E u \in Users : SendCandidate(u)
    \/ \E u \in Users : \E i \in 1..Len(subs[u]) :
          \E c \in 1..Len(iceCandidates) : DeliverCandidate(u, i, c)
    \/ \E u \in Users : \E order \in Sequences(IceFor(currentRoomId[u], u)) :
          DeliverCandidates(u, order)

SpecIce == Init /\ [][NextIce]_vars

\* Every pending callback runs: a resolved getDocs resumes its handler, a
\* pending effect runs, a listener with a notification gets called.  The
\* handlers themselves are called when the application calls them.
Callbacks ==
    \/ \E u \in Users : StartRandomChatFinish(u)
    \/ \E u \in Users, v \in Users : SearchForPartner(u, v)
    \/ \E u \in Users, rollback \in BOOLEAN : HandleRoomSignaling(u, rollback)
    \/ \E u \in Users : \E i \in 1..Len(subs[u]) : DeliverOffers(u, i)
    \/ \E u \in Users : \E i \in 1..Len(subs[u]) : DeliverAnswers(u, i)
    \/ \E u \in Users : \E i \in 1..Len(subs[u]) :
          \E c \in 1..Len(iceCandidates) : DeliverCandidate(u, i, c)
    \/ \E u \in Users : \E order \in Sequences(IceFor(currentRoomId[u], u)) :
          DeliverCandidates(u, order)

SpecIceFair == SpecIce /\ WF_vars(Callbacks)

\* C5 (Candidate flush): a candidate that was queued because it arrived before
\* the remote description was set is applied once the remote description is
\* set: a queue that is not empty while the remote description is set
\* eventually is empty.
CandidateFlush ==
    \A u \in Users :
        (pc[u].remote /\ pendingCandidates[u] # << >>) ~> (pendingCandidates[u] = << >>)

\* no handler is awaiting a read, no effect is pending and no listener has
\* anything to deliver
AtRest ==
    \A u \in Users :
        /\ op[u].kind = "none" /\ ~search[u]
        /\ ~dirtyRoom[u] /\ ~dirtyIce[u]
        /\ \A i \in 1..Len(subs[u]) : ~subs[u][i].d /\ Unseen(u, i) = {}

\* with every callback done, a candidate sits in the queue of a connection
\* whose remote description is set
QueuedAfterRemote ==
    AtRest /\ \E u \in Users : pc[u].remote /\ pendingCandidates[u] # << >>

Before(c, d) ==
    /\ c < d
    /\ iceCandidates[c].senderId = iceCandidates[d].senderId
    /\ iceCandidates[c].roomId = iceCandidates[d].roomId

\* C8 (Per-sender FIFO): the candidates of one sender are applied in the order
\* the sender appended them; no candidate is applied while an earlier
\* candidate of its sender is still queued, and none before an earlier one
\* that is applied after it.
PerSenderFifo ==
    \A u \in Users : \A k \in 1..Len(applied[u]) :
        /\ \A q \in 1..Len(applied[u][k].behind) :
              ~Before(applied[u][k].behind[q], applied[u][k].id)
        /\ \A l \in 1..Len(applied[u]) :
              Before(applied[u][l].id, applied[u][k].id) => l < k

\* after the remote description was set a candidate has been applied while an
\* earlier one of its sender was still queued
AppliedAheadOfQueued ==
    \E u \in Users : \E k \in 1..Len(applied[u]) :
        /\ applied[u][k].remote
        /\ \E q \in 1..Len(applied[u][k].behind) :
              Before(applied[u][k].behind[q], applied[u][k].id)

\* ------------------------------------------------------------------ chat
\* Timestamp.now() is the sender's clock: it does not go back for one
\* sender, and the clocks of two senders are not related
Clock(u) ==
    {t \in 1..MaxTs :
        \A m \in 1..Len(chatMessagesDb) :
            chatMessagesDb[m].senderId = u => chatMessagesDb[m].timestamp <= t}

\* roomService sendChatMessage: addDoc(chatMessages, {roomId, senderId,
\* content, timestamp}); the result is the new document's id.  active records
\* whether the room was active when the message was added.
SendChatMessage(r, u, t) ==
    Append(chatMessagesDb,
           [roomId |-> r, senderId |-> u, timestamp |-> t, active |-> rooms[r].isActive])

\* handleSendMessage
HandleSendMessage(u, t) ==
    LET r == currentRoomId[u] IN
    /\ mounted[u]
    /\ r # NoRoom /\ partner[u] # NoUser
    /\ Len(chatMessagesDb) < MaxMsgs
    /\ t \in Clock(u)
    /\ chatMessagesDb' = SendChatMessage(r, u, t)
    /\ dirtyChat' = [v \in Users |->
                        dirtyChat[v] \/ EffectRoom(chatState, currentRoomId, v) = r]
    /\ UNCHANGED <<rooms, iceCandidates, matchVars, sigVars, iceVars, fetched,
                   chatMessages>>
    /\ UNCHANGED <<presenceVars, histVars>>

\* the callback startRandomChat has given to subscribeToRoomMessages, for
\* listener i of u: the documents added since the last snapshot, in timestamp
\* order, are appended to chatMessages
DeliverMessages(u, i) ==
    LET new == MsgsOf(subs[u][i].room) \ subs[u][i].msgSeen
        list == Ordered(new) IN
    /\ new # {}
    /\ subs' = [subs EXCEPT ![u][i].msgSeen = @ \cup new]
    /\ chatMessages' = [chatMessages EXCEPT
                           ![u] = @ \o [k \in 1..Cardinality(new) |-> list[k]]]
    /\ UNCHANGED <<storeVars, matchVars, pc, effInit, dirtyRoom, answersSet,
                   iceVars, dirtyChat, fetched>>
    /\ UNCHANGED <<presenceVars, histVars>>

\* the callback the chat effect has given to subscribeToChatMessages:
\* chatMessages is replaced by the snapshot
DeliverChat(u) ==
    /\ dirtyChat[u]
    /\ dirtyChat' = [dirtyChat EXCEPT ![u] = FALSE]
    /\ chatMessages' = [chatMessages EXCEPT
                           ![u] = LET S == MsgsOf(currentRoomId[u])
                                      list == Ordered(S)
                                  IN [k \in 1..Cardinality(S) |-> list[k]]]
    /\ UNCHANGED <<storeVars, matchVars, sigVars, iceVars, fetched>>
    /\ UNCHANGED <<presenceVars, histVars>>

\* the getChatMessagesForRoom promise of the chat effect resolves:
\* chatMessages is replaced by what the query returned when it was issued
FetchResolves(u) ==
    /\ fetched[u].room # NoRoom
    /\ fetched' = [fetched EXCEPT ![u] = NoFetch]
    /\ chatMessages' = [chatMessages EXCEPT ![u] = fetched[u].list]
    /\ UNCHANGED <<storeVars, matchVars, sigVars, iceVars, dirtyChat>>
    /\ UNCHANGED <<presenceVars, histVars>>

NextChat ==
    \/ NextMatch
    \/ \E u \in Users, t \in 1..MaxTs : HandleSendMessage(u, t)
    \/ \E u \in Users : \E i \in 1..Len(subs[u]) : DeliverMessages(u, i)
    \/ \E u \in Users : DeliverChat(u)
    \/ \E u \in Users : FetchResolves(u)

SpecChat == Init /\ [][NextChat]_vars

\* u listens to the messages of room r
ListensTo(u, r) ==
    \/ \E i \in 1..Len(subs[u]) : subs[u][i].room = r
    \/ Subscribed(chatState[u], currentRoomId[u]) /\ currentRoomId[u] = r

\* every notification and every pending read of u has been delivered
ChatDelivered(u) ==
    /\ op[u].kind = "none"
    /\ ~dirtyChat[u]
    /\ fetched[u].room = NoRoom
    /\ \A i \in 1..Len(subs[u]) : MsgsOf(subs[u][i].room) \subseteq subs[u][i].msgSeen

\* C9 (Chat ordering): whatever the interleaving of sendChatMessage calls,
\* the message list a subscriber of a room ends up with is non-decreasing in
\* timestamp and holds every message sent to the room exactly once.
ChatOrdering ==
    \A u \in Users :
        LET r == currentRoomId[u]
            list == chatMessages[u] IN
        (r # NoRoom /\ ListensTo(u, r) /\ ChatDelivered(u)) =>
            /\ \A k \in 1..(Len(list) - 1) :
                  chatMessagesDb[list[k]].timestamp <= chatMessagesDb[list[k + 1]].timestamp
            /\ \A m \in MsgsOf(r) :
                  Cardinality({k \in 1..Len(list) : list[k] = m}) = 1

\* a subscriber with one listener has got the two messages of its room, each
\* once, the later timestamp first
ChatOutOfOrder ==
    \E u \in Users :
        /\ currentRoomId[u] # NoRoom /\ ChatDelivered(u)
        /\ Len(subs[u]) = 1 /\ subs[u][1].room = currentRoomId[u]
        /\ ~Subscribed(chatState[u], currentRoomId[u])
        /\ Len(chatMessages[u]) = 2
        /\ chatMessages[u][1] # chatMessages[u][2]
        /\ chatMessagesDb[chatMessages[u][1]].timestamp >
              chatMessagesDb[chatMessages[u][2]].timestamp

\* C10: sending a chat message to a room that has been ended fails and
\* appends no message to the room's collection: every message in the
\* collection was added while its room was active.
NoMessageToEndedRoom ==
    \A m \in 1..Len(chatMessagesDb) : chatMessagesDb[m].active

\* the collection holds a message that was sent to an ended room
MessageToEndedRoom ==
    \E m \in 1..Len(chatMessagesDb) :
        ~chatMessagesDb[m].active /\ ~rooms[chatMessagesDb[m].roomId].isActive

\* ----------------------------------------------------------- negotiation
\* every pending callback runs, and the initiator's offer is handed to the
\* store whenever it has one to hand over
SpecSigFair ==
    SpecSig /\ WF_vars(Callbacks) /\ WF_vars(\E u \in Users : SendOffer(u))

\* the resolver has matched u with a partner in room r and made u the room's
\* initiator (findOrCreateRoom: u created the room and the partner has taken
\* the open seat; createRoomWithUser and createRoom: u created the room)
MatchedAsInitiator(u, r) ==
    /\ r \in Ids /\ rooms[r].isActive
    /\ currentRoomId[u] = r /\ op[u].kind = "none"
    /\ rooms[r].participant1Id = u /\ rooms[r].participant2Id # NoUser

\* u has handed an answer of room r to setRemoteDescription with success
Established(u, r) ==
    \E k \in 1..Len(answersSet[u]) : answersSet[u][k].room = r /\ answersSet[u][k].ok

\* room r holds u's offer and an answer of u's partner, and u is established
Negotiated(u, r) ==
    /\ r \in Ids
    /\ u \in rooms[r].offerBy
    /\ \E i \in 1..Len(rooms[r].answers) : rooms[r].answers[i].by = rooms[r].participant2Id
    /\ Established(u, r)

\* C11 (End-to-end negotiation liveness): with every callback run and no
\* failure, once X is matched with Y as the initiator of a room, and for as
\* long as X stays in that session, the room eventually holds X's offer and
\* Y's answer and X has set its remote description from the answer.
NegotiationCompletes ==
    \A u \in Users : \A r \in 1..MaxRooms :
        MatchedAsInitiator(u, r) ~> (Negotiated(u, r) \/ ~MatchedAsInitiator(u, r))

\* nothing is left to run, no bound of the model is in the way, and an
\* initiator sits in its session with the negotiation not done
NegotiationStuck ==
    /\ AtRest
    /\ OffersWritten < MaxOffers /\ AnswersWritten < MaxAnswers
    /\ \A u \in Users : ~OffersTo(u, currentRoomId[u])
    /\ \E u \in Users : \E r \in Ids : MatchedAsInitiator(u, r) /\ ~Negotiated(u, r)

\* ---------------------------------------------------------- direct match
\* the component used for direct requests only: startRandomChat with a
\* selected user, and the two ways to end a session
NextDirect ==
    \/ \E u \in Users, sel \in Users : sel # u /\ StartRandomChatBegin(u, sel)
    \/ \E u \in Users : StartRandomChatFinish(u)
    \/ \E u \in Users : HandleNextPartner(u)
    \/ \E u \in Users : StopSearch(u)

SpecDirect == Init /\ [][NextDirect]_vars

\* C12 (Direct-match pair uniqueness under concurrency): whatever the
\* interleaving of concurrent direct requests for one pair of users, at most
\* one active room has exactly that pair as its participants.
PairUniqueness ==
    \A r1, r2 \in Ids :
        (/\ rooms[r1].isActive /\ rooms[r2].isActive
         /\ Cardinality(Members(r1)) = 2 /\ Members(r1) = Members(r2)) => r1 = r2

\* u and p have asked for each other at the same time: each has created a
\* room for the pair and sits in its own
PairRoomDuplicated ==
    \E r1, r2 \in Ids : \E u, p \in Users :
        /\ r1 # r2 /\ u # p
        /\ rooms[r1].isActive /\ rooms[r2].isActive
        /\ rooms[r1].participant1Id = u /\ rooms[r1].participant2Id = p
        /\ rooms[r2].participant1Id = p /\ rooms[r2].participant2Id = u
        /\ currentRoomId[u] = r1 /\ currentRoomId[p] = r2

\* the active rooms between u and p, in either participant order
Between(u, p) == RoomsBetween(u, p) \cup RoomsBetween(p, u)

\* the two getDocs results u's createRoomWithUser call holds are those the
\* store would give now: no write has come between the reads and the return
Sequential(u) ==
    /\ op[u].s1 \in FirstDoc(RoomsBetween(u, op[u].partner))
    /\ op[u].s2 \in FirstDoc(RoomsBetween(op[u].partner, u))

\* C13 (Direct-match idempotent join, sequential): a createRoomWithUser call
\* that finds an active room between requester and target, in either
\* participant order, returns the id of such a room (the one with the
\* requester as participant1 if there is one) and leaves the rooms collection
\* as it is.
IdempotentJoin ==
    [][\A u \in Users :
          (/\ op[u].kind = "direct" /\ op'[u].kind = "none"
           /\ Sequential(u)
           /\ Between(u, op[u].partner) # {})
          => /\ rooms' = rooms
             /\ currentRoomId'[u] \in
                   (IF RoomsBetween(u, op[u].partner) # {}
                    THEN RoomsBetween(u, op[u].partner)
                    ELSE RoomsBetween(op[u].partner, u))]_vars

\* a direct request has returned the one room there is, created by the
\* partner's request
JoinedExisting ==
    \E u \in Users :
        /\ Len(rooms) = 1 /\ rooms[1].isActive
        /\ rooms[1].participant2Id = u /\ rooms[1].participant1Id # u
        /\ currentRoomId[u] = 1 /\ partner[u] = rooms[1].participant1Id
        /\ op[u].kind = "none"

\* ----------------------------------------------------------------- roles
\* the role the resolver has assigned u for room r: findOrCreateRoom and
\* createRoomWithUser return isInitiator true to the participant1 of the room
\* and false to its participant2
ResolverRole(u, r) == rooms[r].participant1Id = u

\* C14 (Single initiator per session): the role a member of a room uses when
\* it handles the room's offer and answer notifications (the isInitiator its
\* listeners and handleRoomSignaling read) is the role the resolver assigned
\* it for that room: the creator of the room acts as initiator and the other
\* member as responder, on the random and on the direct path.
SingleInitiator ==
    \A u \in Users :
        /\ \A i \in 1..Len(subs[u]) :
              subs[u][i].isInitiator = ResolverRole(u, subs[u][i].room)
        /\ Subscribed(chatState[u], currentRoomId[u])
              => effInit[u] = ResolverRole(u, currentRoomId[u])

\* both members of a room listen to it in the same role
SameRoleTwice ==
    \E u, v \in Users : \E i \in 1..Len(subs[u]) : \E j \in 1..Len(subs[v]) :
        /\ u # v /\ subs[u][i].room = subs[v][j].room
        /\ Members(subs[u][i].room) = {u, v}
        /\ currentRoomId[u] = subs[u][i].room /\ currentRoomId[v] = subs[v][j].room
        /\ subs[u][i].isInitiator = subs[v][j].isInitiator

\* -------------------------------------------------------------- presence
\* getOnlineUsers of firebaseConnector: getAllUsers, every document of the
\* collection
GetOnlineUsers == {[uid |-> v, isOnline |-> userCollection[v].isOnline] : v \in Users}

\* a write that inverts the flag
ToggleOnline(U, u, b, ok) == [U EXCEPT ![u].isOnline = ~@]

\* updateUserOnlineStatus(uid, isOnline): updateDoc(users/uid, {isOnline,
\* lastActive}); a failed write is caught and leaves the document as it is
\* (the function then returns false).  lastActive is read by no matching code
\* and is left out of the document.
UpdateUserOnlineStatus(U, u, b, ok) == IF ok THEN [U EXCEPT ![u].isOnline = b] ELSE U

\* getOnlineUsers of userService: the documents with isOnline == true
OnlineUsers(U) == {v \in Users : U[v].isOnline}

\* The component unmounts (the cleanup of the mount effect, part_004:63-75):
\* updateUserOnlineStatus(uid, false), the feed and the effects' listeners are
\* unsubscribed.  The listeners of startRandomChat stay, the room stays as it
\* is and the peer connection is not closed.  A component is taken to unmount
\* with no resolver call in flight; its effects being gone is chatState IDLE.
Unmount(u) ==
    /\ mounted[u]
    /\ op[u].kind = "none" /\ ~search[u]
    /\ mounted' = [mounted EXCEPT ![u] = FALSE]
    /\ userCollection' = UpdateUserOnlineStatus(userCollection, u, FALSE, TRUE)
    /\ dirtyUsers' = [v \in Users |-> v # u /\ mounted[v]]
    /\ chatState' = [chatState EXCEPT ![u] = "idle"]
    /\ dirtyRoom' = [dirtyRoom EXCEPT ![u] = FALSE]
    /\ dirtyIce' = [dirtyIce EXCEPT ![u] = FALSE]
    /\ dirtyChat' = [dirtyChat EXCEPT ![u] = FALSE]
    /\ UNCHANGED <<storeVars, op, currentRoomId, partner, isInitiator, search, calls,
                   pc, subs, effInit, answersSet, pendingCandidates, applied,
                   fetched, chatMessages, availableUsers, histVars>>

\* The component mounts again (part_004:32-60, VideoChat.tsx:45-92): fresh
\* state and refs, updateUserOnlineStatus(uid, true) whose returned boolean is
\* not looked at, and a new users feed.  ok is whether the store write
\* succeeded.  A component is taken to mount again only when its previous
\* instance left no listener of startRandomChat behind.
Mount(u, ok) ==
    /\ ~mounted[u]
    /\ Len(subs[u]) = 0
    /\ mounted' = [mounted EXCEPT ![u] = TRUE]
    /\ userCollection' = UpdateUserOnlineStatus(userCollection, u, TRUE, ok)
    /\ availableUsers' = [availableUsers EXCEPT ![u] = {}]
    /\ dirtyUsers' = [v \in Users |->
                         IF v = u THEN TRUE
                         ELSE dirtyUsers[v] \/ (mounted[v] /\ userCollection' # userCollection)]
    /\ chatState' = [chatState EXCEPT ![u] = "idle"]
    /\ currentRoomId' = [currentRoomId EXCEPT ![u] = NoRoom]
    /\ partner' = [partner EXCEPT ![u] = NoUser]
    /\ isInitiator' = [isInitiator EXCEPT ![u] = FALSE]
    /\ pc' = [pc EXCEPT ![u] = NoPc]
    /\ effInit' = [effInit EXCEPT ![u] = FALSE]
    /\ pendingCandidates' = [pendingCandidates EXCEPT ![u] = << >>]
    /\ applied' = [applied EXCEPT ![u] = << >>]
    /\ fetched' = [fetched EXCEPT ![u] = NoFetch]
    /\ chatMessages' = [chatMessages EXCEPT ![u] = << >>]
    /\ UNCHANGED <<storeVars, op, search, calls, subs, dirtyRoom, dirtyIce,
                   dirtyChat, answersSet, histVars>>

\* the callback of subscribeToUsers: setAvailableUsers(filteredUsers)
DeliverUsers(u) ==
    /\ mounted[u] /\ dirtyUsers[u]
    /\ dirtyUsers' = [dirtyUsers EXCEPT ![u] = FALSE]
    /\ availableUsers' = [availableUsers EXCEPT ![u] = Snapshot(userCollection, u)]
    /\ UNCHANGED <<storeVars, matchVars, sigVars, iceVars, chatVars,
                   userCollection, mounted, histVars>>

NextPresence ==
    \/ NextMatch
    \/ \E u \in Users : Unmount(u)
    \/ \E u \in Users : DeliverUsers(u)

SpecPresence == Init /\ [][NextPresence]_vars

\* w is offered v as a match partner
Selectable(w, v) == v \in AvailableUsers(w)

\* v is in the available set: online, and offered to every requester whose
\* feed is up to date
InAvailableSet(v) ==
    /\ userCollection[v].isOnline
    /\ \A w \in Users \ {v} : (mounted[w] /\ ~dirtyUsers[w]) => Selectable(w, v)

\* C15 (Paired means unavailable): a member of an active room is not in the
\* available set: no requester whose feed is up to date is offered it as a
\* match partner.
PairedUnavailable ==
    \A v \in Users :
        ActiveRoomsOf(v) # {} =>
            \A w \in Users \ {v} : (mounted[w] /\ ~dirtyUsers[w]) => ~Selectable(w, v)

\* both members of an active room are online and offered to each other, with
\* no resolver call in flight
PairedAndSelectable ==
    \E r \in Ids :
        /\ rooms[r].isActive /\ Members(r) = Users
        /\ \E u \in Users : currentRoomId[u] = r
        /\ \A v \in Users : /\ InAvailableSet(v) /\ mounted[v]
                            /\ op[v].kind = "none" /\ ~search[v]

RandomMatchReturns(u) ==
    \/ op[u].kind = "random" /\ op'[u].kind = "none"
    \/ search[u] /\ ~search'[u]

\* C17: a random-match request made while no other participant is available
\* creates no room and leaves the requester's presence record available.
NoPartnersNoRoom ==
    [][\A u \in Users :
          (RandomMatchReturns(u) /\ NoOtherOnline(u))
              => (rooms' = rooms /\ userCollection'[u].isOnline)]_vars

\* an active room made by a random request of a user who was the only one
\* online, and still is
RoomForNobody ==
    \E r \in lonely :
        /\ rooms[r].isActive
        /\ mounted[rooms[r].participant1Id]
        /\ currentRoomId[rooms[r].participant1Id] = r
        /\ NoOtherOnline(rooms[r].participant1Id)

\* C19: every participant offered as a match candidate (returned by
\* getOnlineUsers, or held in availableUsers from the subscribeToUsers feed)
\* is another user than the requester and was online when it was listed.
ListedOnline ==
    /\ \A d \in GetOnlineUsers : d.isOnline
    /\ \A u \in Users : mounted[u] =>
          \A d \in availableUsers[u] : d.uid # u /\ d.isOnline

\* searchForPartner has paired u with a user its list shows as offline
OfflinePartnerChosen ==
    \E u \in Users : \E d \in availableUsers[u] :
        /\ ~d.isOnline /\ d \in GetOnlineUsers
        /\ mounted[u] /\ chatState[u] = "connected"
        /\ partner[u] = d.uid
        /\ currentRoomId[u] \in lonely

\* ---------------------------------------------------------- cancellation
\* a callback of listener i of u runs in this step: the offers or answers
\* listener takes its notification, or the candidate or message listener
\* reports documents
ListenerCalled(u, i) ==
    \/ subs[u][i].d /\ ~subs'[u][i].d
    \/ subs'[u][i].iceSeen # subs[u][i].iceSeen
    \/ subs'[u][i].msgSeen # subs[u][i].msgSeen

\* C18 (Cancellation): once a participant's handleNextPartner or stopSearch
\* has ended a room, none of that participant's listeners is called with a
\* signaling, candidate or chat notification of that room any more.
Cancellation ==
    [][\A u \in Users : \A i \in 1..Len(subs[u]) :
          ListenerCalled(u, i) => subs[u][i].room \notin ended[u]]_vars

\* the chat list of a participant that has ended its session and started no
\* other holds a message of the ended room, sent after the end and reported
\* by the message listener of startRandomChat
MessageAfterEnd ==
    \E u \in Users : \E k \in 1..Len(chatMessages[u]) : \E i \in 1..Len(subs[u]) :
        LET m == chatMessages[u][k] IN
        /\ chatMessagesDb[m].roomId \in ended[u]
        /\ ~chatMessagesDb[m].active
        /\ subs[u][i].room = chatMessagesDb[m].roomId /\ m \in subs[u][i].msgSeen
        /\ currentRoomId[u] = NoRoom /\ chatState[u] # "connected"
        /\ fetched[u].room = NoRoom

\* ------------------------------------------------------ end of a session
\* v treats room r as its live session: r is its current room and its peer
\* connection is up
Live(v, r) == currentRoomId[v] = r /\ pc[v].sig # "none"

\* the other participant has ended room r
EndedByPartner(v, r) ==
    /\ r \in Ids /\ ~rooms[r].isActive
    /\ \E u \in Users \ {v} : r \in ended[u]

\* C20 (Partner learns of the end): when one participant has ended a session
\* and every notification is delivered, the other participant eventually
\* stops treating the session as live: it closes its peer connection or
\* leaves the room.
PartnerLearns ==
    \A v \in Users : \A r \in 1..MaxRooms :
        (EndedByPartner(v, r) /\ Live(v, r)) ~> ~Live(v, r)

\* nothing is left to run and a participant still sits, connection up, in a
\* room its partner has ended
LiveAfterEnd ==
    /\ AtRest
    /\ \E v \in Users : \E r \in Ids :
          /\ EndedByPartner(v, r) /\ Live(v, r)
          /\ v \in Members(r) /\ mounted[v]

\* ------------------------------------------------------------ disconnect
\* u has disconnected: its component has unmounted and the cleanup has run
Disconnected(u) == ~mounted[u]

\* C21 (disconnect cleanup): once a participant has disconnected, it is
\* neither available (online in the user collection) nor a member of any
\* active room.
DisconnectCleanup ==
    \A u \in Users :
        Disconnected(u) => /\ ~userCollection[u].isOnline
                           /\ ActiveRoomsOf(u) = {}

\* a participant has disconnected from a session and the room of that
\* session is still active with it as a member
DisconnectedMember ==
    \E u \in Users :
        /\ Disconnected(u)
        /\ currentRoomId[u] \in ActiveRoomsOf(u)

\* ------------------------------------------------------------------ next
\* the matching handlers with the chatState effect in either of its two
\* forms
NextSearching ==
    \/ NextMatch
    \/ \E u \in Users : InitializeLocalVideo(u)

\* every pending continuation and every pending effect runs
Pending ==
    \/ \E u \in Users : StartRandomChatFinish(u)
    \/ \E u \in Users, v \in Users : SearchForPartner(u, v)
    \/ \E u \in Users : InitializeLocalVideo(u)

SpecNextFair == Init /\ [][NextSearching]_vars /\ WF_vars(Pending)

\* u has left a session and is searching
NextPressed(u) ==
    /\ chatState[u] = "searching"
    /\ currentRoomId[u] = NoRoom
    /\ ended[u] # {}

\* u is a member of an active room it has not ended
Rematched(u) ==
    /\ currentRoomId[u] \in ActiveRoomsOf(u)
    /\ currentRoomId[u] \notin ended[u]

\* C22 (Next): after a connected participant presses Next, the participant
\* eventually becomes a member of a new active room or returns to the idle
\* state; it does not remain in the searching state forever.
NextCompletes ==
    \A u \in Users :
        NextPressed(u) ~> (Rematched(u) \/ chatState[u] = "idle")

\* a participant's second handler call was Next on its session, the
\* chatState effect has run, and the participant is searching with no search
\* under way
NextStranded ==
    \E u \in Users :
        /\ calls = 2
        /\ NextPressed(u)
        /\ ~search[u] /\ op[u].kind = "none"

\* -------------------------------------------------------------- announce
\* presence and matching with components that mount again, the announce of
\* a mount succeeding or failing
NextAnnounce ==
    \/ \E u \in Users, ok \in BOOLEAN : Mount(u, ok)
    \/ \E u \in Users : Unmount(u)
    \/ \E u \in Users : DeliverUsers(u)
    \/ \E u \in Users : StartRandomChatBegin(u, NoUser)
    \/ \E u \in Users : StartRandomChatFinish(u)
    \/ \E u \in Users : StartSearch(u)
    \/ \E u \in Users, v \in Users : SearchForPartner(u, v)

SpecAnnounce == Init /\ [][NextAnnounce]_vars

\* C23 (idempotence): announce (updateUserOnlineStatus(uid, true)) and
\* withdraw (updateUserOnlineStatus(uid, false)) are idempotent on
\* availability: applied twice in a row to the user collection, either of
\* them yields the same available set as applied once.
PresenceIdempotent ==
    \A u \in Users, b, ok \in BOOLEAN :
        LET once == UpdateUserOnlineStatus(userCollection, u, b, ok)
            twice == UpdateUserOnlineStatus(once, u, b, ok)
        IN  OnlineUsers(twice) = OnlineUsers(once)

\* a withdraw and a later announce have both acted on the collection: a
\* participant that was withdrawn and is announced, next to one that is
\* withdrawn
AnnouncedAndWithdrawn ==
    \E u, v \in Users :
        /\ mounted[u] /\ u \in OnlineUsers(userCollection) /\ availableUsers[u] = {}
        /\ ~mounted[v] /\ v \notin OnlineUsers(userCollection)

\* the announce of u's mount failed and no later announce has succeeded
AnnounceFailed(u) == mounted[u] /\ ~userCollection[u].isOnline

\* C24 (failed announce): while the store write of a participant's announce
\* has failed and no later announce has succeeded, the participant is not
\* treated as available: it does not proceed to matching, is in no session
\* and is offered to no requester whose feed is up to date.
AnnounceFailureRespected ==
    \A u \in Users :
        AnnounceFailed(u) =>
            /\ op[u].kind = "none" /\ ~search[u]
            /\ currentRoomId[u] = NoRoom
            /\ \A w \in Users : (mounted[w] /\ ~dirtyUsers[w]) => ~Selectable(w, u)

\* a participant whose announce failed has gone on to matching and is in an
\* active room
UnavailableMatched ==
    \E u \in Users :
        /\ AnnounceFailed(u)
        /\ currentRoomId[u] \in ActiveRoomsOf(u)

\* ------------------------------------------------------------- open seat
\* a third client calls findOrCreateRoom(Guest): up to its getDocs
GuestBegin ==
    /\ op[Guest].kind = "none"
    /\ calls < MaxCalls
    /\ calls' = calls + 1
    /\ \E f \in FirstDoc(OpenRooms) :
          op' = [op EXCEPT ![Guest] = [kind |-> "random", partner |-> NoUser,
                                       s1 |-> f, s2 |-> NoRoom]]
    /\ UNCHANGED <<storeVars, chatState, currentRoomId, partner, isInitiator,
                   search, sigVars, iceVars, chatVars, presenceVars, histVars>>

\* findOrCreateRoom(Guest) from its getDocs to its return; what it returned
\* is kept in op[Guest]: joined (isInitiator false) or created (true), the
\* roomId in s1 and the partnerId in partner
GuestFinish ==
    /\ op[Guest].kind = "random"
    /\ LET res == FindOrCreateRoom(Guest, op[Guest].s1) IN
       /\ Len(res[1]) <= MaxRooms
       /\ rooms' = res[1]
       /\ subs' = TouchSubs(subs, res[1], Written(res))
       /\ dirtyRoom' = TouchEffect(dirtyRoom, res[1], Written(res))
       /\ op' = [op EXCEPT ![Guest] =
                    [kind |-> IF res[4] THEN "created" ELSE "joined",
                     partner |-> res[3], s1 |-> res[2], s2 |-> NoRoom]]
    /\ UNCHANGED <<iceCandidates, chatMessagesDb, chatState, currentRoomId,
                   partner, isInitiator, search, calls, pc, effInit, answersSet,
                   iceVars, chatVars, presenceVars, histVars>>

\* concurrent findOrCreateRoom calls of the two users and the third client
NextSeat ==
    \/ \E u \in Users : StartRandomChatBegin(u, NoUser)
    \/ \E u \in Users : StartRandomChatFinish(u)
    \/ \E u \in Users : HandleNextPartner(u)
    \/ GuestBegin
    \/ GuestFinish

SpecSeat == Init /\ [][NextSeat]_vars

\* findOrCreateRoom has returned room r to requester q with isInitiator
\* false
ReturnedAsJoiner(q, r) ==
    IF q = Guest
    THEN op[q].kind = "joined" /\ op[q].s1 = r
    ELSE /\ op[q].kind = "none" /\ currentRoomId[q] = r
         /\ ~isInitiator[q] /\ rooms[r].participant1Id # q

\* C25 (open-seat exclusivity): whatever the interleaving of concurrent
\* findOrCreateRoom calls, an open-seat room is joined by at most one
\* participant: no two requesters have both been returned the same roomId
\* with isInitiator false.
OpenSeatExclusive ==
    \A r \in Ids : \A q1, q2 \in Users \cup {Guest} :
        (ReturnedAsJoiner(q1, r) /\ ReturnedAsJoiner(q2, r)) => q1 = q2

\* two requesters hold the same room as joiners, and the room names only the
\* one that wrote last
SeatTakenTwice ==
    \E r \in Ids : \E q \in Users :
        /\ ReturnedAsJoiner(q, r) /\ ReturnedAsJoiner(Guest, r)
        /\ rooms[r].participant2Id \in {q, Guest}

\* ------------------------------------------------------------ ended room
\* C26 (ended is terminal for membership): no interleaving of
\* findOrCreateRoom with an end-session operation writes a participant2Id
\* into a room whose isActive is already false: no step changes the
\* participant2Id of an inactive room.
EndedIsTerminal ==
    [][\A r \in Ids :
          ~rooms[r].isActive => rooms'[r].participant2Id = rooms[r].participant2Id]_vars

\* a requester's findOrCreateRoom has read a room as an open seat, the room
\* has been ended since, and the requester's write is still to come
EndedSeatRead ==
    \E q \in Users \cup {Guest} : \E r \in Ids :
        /\ op[q].kind = "random" /\ op[q].s1 = r
        /\ ~rooms[r].isActive
        /\ r \in ended[rooms[r].participant1Id]
        /\ rooms[r].participant2Id = NoUser

\* ------------------------------------------------------ candidate delivery
\* candidate document c has reached a candidate handler of v: a listener of
\* startRandomChat has reported it, or the effect's listener has handed it to
\* the peer connection
Handled(v, c) ==
    \/ \E i \in 1..Len(subs[v]) : c \in subs[v][i].iceSeen
    \/ \E k \in 1..Len(applied[v]) : applied[v][k].id = c

\* every other participant of the candidate's room that is still in the
\* session has had candidate c delivered
Delivered(c) ==
    /\ c \in 1..Len(iceCandidates)
    /\ LET r == iceCandidates[c].roomId IN
       \A v \in (Members(r) \cap Users) \ {iceCandidates[c].senderId} :
          \/ Handled(v, c)
          \/ currentRoomId[v] # r \/ pc[v].sig = "none"
          \/ ~rooms[r].isActive

\* C27 (no candidate lost): every candidate appended to a room by one
\* participant is eventually delivered to the other participant's candidate
\* handler, also when that participant created the room as an open seat and
\* subscribed with partnerId "".
NoCandidateLost ==
    \A c \in 1..MaxCands : (c \in 1..Len(iceCandidates)) ~> Delivered(c)

\* every callback is done, and a candidate of the joiner has not reached the
\* creator of the room, whose listener was subscribed with partnerId ""
CandidateLost ==
    /\ AtRest
    /\ \E c \in 1..Len(iceCandidates) : \E v \in Users : \E i \in 1..Len(subs[v]) :
          /\ ~Delivered(c)
          /\ subs[v][i].room = iceCandidates[c].roomId
          /\ subs[v][i].other = NoUser
          /\ rooms[iceCandidates[c].roomId].participant1Id = v
          /\ rooms[iceCandidates[c].roomId].participant2Id = iceCandidates[c].senderId
          /\ ~Handled(v, c)

\* -------------------------------------------------------- protocol order
\* C28 (protocol order): in every reachable state of a room the answer is
\* set only if the offer is set, and every answer written to the room was
\* written in response to an offer observed in that room.
ProtocolOrder ==
    \A r \in Ids :
        /\ HasAnswer(r) => rooms[r].offer # NoOffer
        /\ \A k \in 1..Len(rooms[r].answers) :
              /\ rooms[r].answers[k].of # NoOffer
              /\ rooms[r].answers[k].of <= rooms[r].offer

\* a room holds an offer and an answer to it, written by a participant of
\* the room
Answering ==
    \E r \in Ids :
        /\ HasAnswer(r) /\ rooms[r].offer # NoOffer
        /\ rooms[r].answers[1].by \in Members(r)

\* ---------------------------------------------------------- self-pairing
\* the matching handlers, with a direct request naming any user: nothing in
\* the repository sets or checks selectedUserId, and createRoomWithUser takes
\* any partnerId
NextSelf ==
    \/ \E u \in Users, sel \in Users \cup {NoUser} : StartRandomChatBegin(u, sel)
    \/ \E u \in Users : StartRandomChatFinish(u)
    \/ \E u \in Users : StartSearch(u)
    \/ \E u \in Users, v \in Users : SearchForPartner(u, v)
    \/ \E u \in Users : HandleNextPartner(u)

SpecSelf == Init /\ [][NextSelf]_vars

\* C29 (no self-pairing): no room has the same participant as participant1Id
\* and as participant2Id, whether it was made by random match
\* (findOrCreateRoom, searchForPartner) or by direct match
\* (createRoomWithUser).
NoSelfPairing ==
    \A r \in Ids : rooms[r].participant1Id # rooms[r].participant2Id

\* a requester holds an active room in which it is both participants
SelfPaired ==
    \E u \in Users : \E r \in Ids :
        /\ rooms[r].participant1Id = u /\ rooms[r].participant2Id = u
        /\ rooms[r].isActive /\ currentRoomId[u] = r

\* ----------------------------------------------------------- failed start
\* startRandomChat from the resolver's getDocs on, when a step after the
\* resolver throws (initiatePeerConnection or the first subscription): the
\* resolver has written, setIsInitiator, setCurrentRoomId and setPartnerUid
\* have run, no listener is installed, and the catch block
\* (VideoChat.tsx:324-329) sets the error and calls closePeerConnection
StartRandomChatThrows(u) ==
    /\ op[u].kind # "none"
    /\ LET res == Resolved(u)
           init == IF op[u].kind = "direct" THEN TRUE ELSE res[4] IN
       /\ Len(res[1]) <= MaxRooms
       /\ rooms' = res[1]
       /\ isInitiator' = [isInitiator EXCEPT ![u] = init]
       /\ currentRoomId' = [currentRoomId EXCEPT ![u] = res[2]]
       /\ partner' = [partner EXCEPT ![u] = res[3]]
       /\ subs' = TouchSubs(subs, res[1], Written(res))
       /\ dirtyRoom' = EffectFlag(dirtyRoom, u, chatState[u], res[2], init,
                                  res[1], Written(res))
       /\ dirtyIce' = EffectIce(u, chatState[u], res[2])
       /\ dirtyChat' = EffectFlagQ(dirtyChat, u, chatState[u], res[2])
       /\ fetched' = Fetch(fetched, u, chatState[u], res[2])
       /\ effInit' = [effInit EXCEPT ![u] =
                         IF Resubscribes(u, chatState[u], res[2]) THEN init ELSE @]
    /\ op' = [op EXCEPT ![u] = NoOp]
    /\ pc' = [pc EXCEPT ![u] = NoPc]
    /\ applied' = [applied EXCEPT ![u] = << >>]
    /\ lonely' = lonely \cup (IF op[u].kind = "random" /\ NoOtherOnline(u)
                            THEN {Written(Resolved(u))} \ {NoRoom} ELSE {})
    /\ UNCHANGED <<iceCandidates, chatMessagesDb, chatState, search, calls,
                   answersSet, pendingCandidates, chatMessages>>
    /\ UNCHANGED <<presenceVars, ended, offersSet>>

NextFail ==
    \/ NextMatch
    \/ \E u \in Users : StartRandomChatThrows(u)

SpecFail == Init /\ [][NextFail]_vars

\* C30 (failed start leaves no session): if startRandomChat fails at a step
\* after the resolver has allocated or joined a room, then once the error
\* handler has run the requester is not a member of any active room.
FailedStartLeavesNoSession ==
    [][\A u \in Users :
          (op[u].kind # "none" /\ op'[u].kind = "none" /\ pc'[u] = NoPc)
              => ActiveRoomsOf(u)' = {}]_vars

\* the only handler call so far was a startRandomChat that failed: its
\* caller has no peer connection and no listener on the room the resolver
\* gave it, and is a member of that room, which is active
FailedStartHoldsRoom ==
    \E u \in Users :
        /\ calls = 1 /\ op[u].kind = "none"
        /\ pc[u] = NoPc /\ Len(subs[u]) = 0
        /\ currentRoomId[u] \in ActiveRoomsOf(u)

\* ------------------------------------------------------------ failed end
\* handleNextPartner or stopSearch of a participant in a room, with the
\* updateDoc of updateRoomStatus failing
LeaveFails(u, cs) ==
    /\ currentRoomId[u] # NoRoom
    /\ LeaveWith(u, cs, FALSE)

NextEndFail ==
    \/ NextMatch
    \/ \E u \in Users, cs \in {"searching", "idle"} : LeaveFails(u, cs)

SpecEndFail == Init /\ [][NextEndFail]_vars

\* C31 (failed end): a participant becomes a member of a new room only after
\* the room it previously belonged to has been marked inactive, also when the
\* updateRoomStatus write of the previous room has failed: while a
\* participant holds a room, every room it has left through
\* handleNextPartner or stopSearch is inactive.
LeftRoomsInactive ==
    \A u \in Users : \A w \in ended[u] :
        (currentRoomId[u] # NoRoom /\ currentRoomId[u] # w) => ~rooms[w].isActive

\* a participant is a member of two active rooms: the one it holds and one it
\* has left before
LeftRoomStillActive ==
    \E u \in Users : \E w \in ended[u] :
        /\ currentRoomId[u] \in ActiveRoomsOf(u) \ {w}
        /\ w \in ActiveRoomsOf(u)

\* ------------------------------------------------------------------ reset
\* C32 (reset on offer): when the responder resets its connection because an
\* offer arrives in a signaling state that is not stable, setRemoteDescription
\* and createAnswer are invoked on the newly created peer connection, never
\* on a peer connection that has been closed.
NeverOnClosedConnection ==
    \A u \in Users : "closed" \notin offersSet[u]

\* a responder has called setRemoteDescription(offer) on a connection it had
\* closed, and the connection it created instead has no remote description
RemoteSetOnClosed ==
    \E u \in Users :
        /\ "closed" \in offersSet[u]
        /\ pc[u].sig = "have-local-offer" /\ ~pc[u].remote

\* -------------------------------------------------------------- chat list
\* the messages of the displayed list of u
Listed(u) == {chatMessages[u][k] : k \in 1..Len(chatMessages[u])}

\* u is connected to room r
ConnectedTo(u, r) == chatState[u] = "connected" /\ currentRoomId[u] = r /\ r # NoRoom

\* C33 (chat list never regresses): while a session is connected, whatever
\* the interleaving of the result of the initial getChatMessagesForRoom and
\* the snapshots of subscribeToChatMessages, a message that is in the
\* displayed list is in the list after every callback for the same room.
ChatListGrows ==
    [][\A u \in Users :
          (/\ calls' = calls /\ op' = op
           /\ ConnectedTo(u, currentRoomId[u])
           /\ chatState'[u] = "connected" /\ currentRoomId'[u] = currentRoomId[u])
              => Listed(u) \subseteq {chatMessages'[u][k] : k \in 1..Len(chatMessages'[u])}]_vars

\* every callback of a connected participant is done and its list lacks a
\* message of its room: the result of the initial read came in after a
\* snapshot that had the message
ChatListRegressed ==
    \E u \in Users :
        /\ ConnectedTo(u, currentRoomId[u])
        /\ ChatDelivered(u)
        /\ calls = 1
        /\ MsgsOf(currentRoomId[u]) \ Listed(u) # {}

\* ------------------------------------------------------- candidate queue
\* the rooms of the candidates in u's pending queue
QueuedRooms(u) ==
    {iceCandidates[pendingCandidates[u][k]].roomId : k \in 1..Len(pendingCandidates[u])}

\* C34 (session-scoped queue): in every reachable state the pending-candidate
\* queue of a participant holds only candidates received for its current
\* room; after a session is ended and a new one started, no candidate of the
\* earlier session is still queued.
QueueSessionScoped ==
    \A u \in Users : QueuedRooms(u) \subseteq {currentRoomId[u]}

\* a participant has ended a session and is in a new one, and a candidate of
\* the ended session is still in its queue
StaleCandidateQueued ==
    \E u \in Users :
        /\ currentRoomId[u] \in Ids \ ended[u]
        /\ pc[u].sig # "none"
        /\ QueuedRooms(u) \cap ended[u] # {}

\* ------------------------------------------------------- direct resolver
\* C35 (roles of the direct resolver): createRoomWithUser returns isInitiator
\* true exactly when the caller is participant1Id of the room whose id it
\* returns, so the other member of that room is given the opposite value: at
\* every return of a direct request the returned flag is the caller's being
\* participant1Id, and is not the partner's.
DirectRoleByCreator ==
    [][\A u \in Users :
          (op[u].kind = "direct" /\ op'[u].kind = "none")
              => LET res == Resolved(u)
                     r == currentRoomId'[u] IN
                 /\ r = res[2]
                 /\ res[4] <=> (rooms'[r].participant1Id = u)
                 /\ op[u].partner # u =>
                       (res[4] <=> rooms'[r].participant1Id # op[u].partner)]_vars

\* a direct request has been returned a room made by its partner: the caller
\* is participant2Id of the room it holds (and its component has set
\* isInitiator all the same)
ReturnedPartnersRoom ==
    \E u \in Users : \E r \in Ids :
        /\ op[u].kind = "none" /\ currentRoomId[u] = r
        /\ rooms[r].participant2Id = u /\ rooms[r].participant1Id = partner[u]
        /\ partner[u] # u /\ isInitiator[u]

\* ------------------------------------------------------------ profile save
\* userData.isOnline is optional (userService.ts:21): no value, or one
UserDataOnline == {<< >>, <<TRUE>>, <<FALSE>>}

\* upsertUser of userService (userService.ts:44-71).  The document exists:
\* updateDoc(userRef, {...updateData, lastActive}), where updateData is
\* userData without uid and createdAt, so isOnline is written when userData
\* carries it and left alone when it does not.  No document: setDoc with
\* isOnline true after the spread.  A failed read or write is caught and
\* leaves the collection as it is.
UpsertUser(U, u, exists, data, ok) ==
    IF ~ok THEN U
    ELSE IF exists
         THEN IF Len(data) = 0 THEN U ELSE [U EXCEPT ![u].isOnline = data[1]]
         ELSE [U EXCEPT ![u].isOnline = TRUE]

\* upsertUser of firebaseConnector (firebaseConnector.ts:78-108): isOnline:
\* true comes after the spread in both branches
UpsertUserConnector(U, u, exists, data, ok) ==
    IF ~ok THEN U ELSE [U EXCEPT ![u].isOnline = TRUE]

\* A profile is saved for u, whose document exists (every user of the model
\* has one), through either upsertUser; the users feed of every mounted
\* component is notified when the collection changed.  The profile page is
\* not the chat component: u may have the chat mounted or not.
SaveProfile(u, connector, data, ok) ==
    /\ userCollection' = IF connector
                         THEN UpsertUserConnector(userCollection, u, TRUE, data, ok)
                         ELSE UpsertUser(userCollection, u, TRUE, data, ok)
    /\ dirtyUsers' = [v \in Users |->
                         dirtyUsers[v] \/ (mounted[v] /\ userCollection' # userCollection)]
    /\ UNCHANGED <<storeVars, matchVars, sigVars, iceVars, chatVars,
                   availableUsers, mounted, histVars>>

NextProfile ==
    \/ NextAnnounce
    \/ \E u \in Users, connector, ok \in BOOLEAN :
          \E data \in UserDataOnline : SaveProfile(u, connector, data, ok)

SpecProfile == Init /\ [][NextProfile]_vars

\* C36 (profile save keeps availability): upsertUser on an existing user
\* leaves that user's isOnline as it was.  Mount and Unmount are the steps
\* that change mounted; every other step that writes the user collection is a
\* profile save.
SaveKeepsAvailability ==
    [][\A u \in Users :
          mounted' = mounted =>
              userCollection'[u].isOnline = userCollection[u].isOnline]_vars

\* a participant that withdrew (its component is unmounted) is available
SavedAvailable == \E u \in Users : ~mounted[u] /\ userCollection[u].isOnline

\* ------------------------------------------------------- whole component
Next ==
    \/ NextIce \/ NextChat \/ NextPresence
    \/ \E u \in Users : InitializeLocalVideo(u)
    \/ \E u \in Users, ok \in BOOLEAN : Mount(u, ok)
    \/ \E u \in Users : StartRandomChatThrows(u)
    \/ GuestBegin \/ GuestFinish
    \/ \E u \in Users, cs \in {"searching", "idle"} : LeaveFails(u, cs)
    \/ \E u \in Users, connector, ok \in BOOLEAN :
          \E data \in UserDataOnline : SaveProfile(u, connector, data, ok)

Spec == Init /\ [][Next]_vars

====
